---- MODULE Spec2Model ----
(***************************************************************************)
(* Model of the shield-friction calculation core of fric.py.               *)
(*                                                                         *)
(* Python floats are modelled as exact decimal numbers: a sign, a          *)
(* magnitude held as little-endian limbs in base 10^4 and a scale counted  *)
(* in fractional limbs.  Sums and products are exact; quotients, square    *)
(* roots and the trigonometric series are truncated to Prec fractional     *)
(* limbs.                                                                  *)
(***************************************************************************)
EXTENDS Integers, Sequences, FiniteSets, TLC

Base == 10000

\* fractional limbs kept by the inexact operations (4 digits per limb)
Prec == 4

----------------------------------------------------------------------------
(* Magnitudes: sequences of limbs, least significant first. *)

Limb(a, i) == IF i <= Len(a) THEN a[i] ELSE 0

Zeros(n) == [i \in 1..n |-> 0]

RECURSIVE StripHigh(_)
StripHigh(a) ==
    IF a = <<>> THEN a
    ELSE IF a[Len(a)] = 0 THEN StripHigh(SubSeq(a, 1, Len(a) - 1))
    ELSE a

RECURSIVE MagOfNat(_)
MagOfNat(n) == IF n = 0 THEN <<>> ELSE <<n % Base>> \o MagOfNat(n \div Base)

RECURSIVE AddFrom(_, _, _, _)
AddFrom(a, b, i, carry) ==
    IF i > Len(a) /\ i > Len(b)
    THEN (IF carry = 0 THEN <<>> ELSE <<carry>>)
    ELSE LET s == Limb(a, i) + Limb(b, i) + carry
         IN  <<s % Base>> \o AddFrom(a, b, i + 1, s \div Base)

MagAdd(a, b) == AddFrom(a, b, 1, 0)

RECURSIVE SubFrom(_, _, _, _)
SubFrom(a, b, i, borrow) ==
    IF i > Len(a) THEN <<>>
    ELSE LET d == a[i] - Limb(b, i) - borrow
         IN  IF d < 0 THEN <<d + Base>> \o SubFrom(a, b, i + 1, 1)
             ELSE <<d>> \o SubFrom(a, b, i + 1, 0)

\* a - b for a >= b
MagSub(a, b) == StripHigh(SubFrom(a, b, 1, 0))

RECURSIVE CmpAt(_, _, _)
CmpAt(a, b, i) ==
    IF i = 0 THEN 0
    ELSE IF a[i] < b[i] THEN -1
    ELSE IF a[i] > b[i] THEN 1
    ELSE CmpAt(a, b, i - 1)

\* -1, 0, 1 for stripped magnitudes
MagCmp(a, b) ==
    IF Len(a) < Len(b) THEN -1
    ELSE IF Len(a) > Len(b) THEN 1
    ELSE CmpAt(a, b, Len(a))

RECURSIVE MulLimbFrom(_, _, _, _)
MulLimbFrom(a, k, i, carry) ==
    IF i > Len(a) THEN (IF carry = 0 THEN <<>> ELSE <<carry>>)
    ELSE LET p == a[i] * k + carry
         IN  <<p % Base>> \o MulLimbFrom(a, k, i + 1, p \div Base)

MagMulLimb(a, k) == IF k = 0 THEN <<>> ELSE MulLimbFrom(a, k, 1, 0)

\* a times the limbs i and below of b, added to acc * Base^i, where acc is
\* a times the limbs above i
RECURSIVE MulFrom(_, _, _, _)
MulFrom(a, b, i, acc) ==
    IF i = 0 THEN acc
    ELSE IF acc = <<>> THEN MulFrom(a, b, i - 1, MagMulLimb(a, b[i]))
    ELSE MulFrom(a, b, i - 1, MagAdd(MagMulLimb(a, b[i]), <<0>> \o acc))

MagMul(a, b) == MulFrom(a, b, Len(b), <<>>)

\* long division by a single limb k: quot holds the quotient limbs found so
\* far for the high limbs of n and rem their remainder
RECURSIVE DivSmallFrom(_, _, _, _)
DivSmallFrom(n, k, quot, rem) ==
    IF Len(quot) = Len(n) THEN quot
    ELSE DivSmallFrom(n, k,
                      <<(rem * Base + n[Len(n) - Len(quot)]) \div k>> \o quot,
                      (rem * Base + n[Len(n) - Len(quot)]) % k)

\* raise the quotient estimate q while the remainder r still holds d
RECURSIVE Correct(_, _, _)
Correct(r, d, q) ==
    IF MagCmp(r, d) >= 0 THEN Correct(MagSub(r, d), d, q + 1) ELSE <<q, r>>

\* the next quotient limb estimated from the top two limbs of the running
\* remainder r1; never above the true limb for d with top limb >= Base / 2
DivEst(d, r1) ==
    (Limb(r1, Len(d) + 1) * Base + Limb(r1, Len(d))) \div (d[Len(d)] + 1)

\* <<quotient limb, remainder>> of r1 by d
DivLimb(d, r1) ==
    Correct(MagSub(r1, MagMulLimb(d, DivEst(d, r1))), d, DivEst(d, r1))

\* Long division by d with top limb >= Base / 2.  The top Len(d) - 1 limbs
\* of n are below d and start as the remainder; quot holds the quotient
\* limbs found so far for the limbs of n under them and rem the remainder so
\* far.  Yields <<quotient, remainder>>.
RECURSIVE DivFrom(_, _, _, _)
DivFrom(n, d, quot, rem) ==
    IF Len(quot) = Len(n) - Len(d) + 1 THEN <<quot, rem>>
    ELSE LET qr == DivLimb(d, StripHigh(<<n[Len(n) - Len(d) + 1 - Len(quot)]>> \o rem))
         IN  DivFrom(n, d, <<qr[1]>> \o quot, qr[2])

\* n and d scaled by a factor that brings the top limb of d to Base / 2 or
\* more
DivScaled(n, d) ==
    IF Len(n) < Len(d) THEN <<>>
    ELSE DivFrom(n, d, <<>>, SubSeq(n, Len(n) - Len(d) + 2, Len(n)))[1]

\* floor(n / d) for d # 0
MagDiv(n, d) ==
    IF Len(d) = 1 THEN StripHigh(DivSmallFrom(n, d[1], <<>>, 0))
    ELSE StripHigh(DivScaled(MagMulLimb(n, Base \div (d[Len(d)] + 1)),
                             MagMulLimb(d, Base \div (d[Len(d)] + 1))))

\* floor(sqrt(k)) for a natural k < Base^2, by bisection
RECURSIVE NatSqrt(_, _, _)
NatSqrt(k, lo, hi) ==
    IF lo = hi THEN lo
    ELSE LET mid == (lo + hi + 1) \div 2
         IN  IF mid * mid <= k THEN NatSqrt(k, mid, hi) ELSE NatSqrt(k, lo, mid - 1)

\* Newton's iteration x -> (x + n / x) / 2 from a start above the root
RECURSIVE Newton(_, _)

NewtonStep(n, x, y) == IF MagCmp(y, x) >= 0 THEN x ELSE Newton(n, y)

Newton(n, x) == NewtonStep(n, x, MagDiv(MagAdd(x, MagDiv(n, x)), <<2>>))

\* the start: the root of the top one or two limbs of n, rounded up, at the
\* position h of the top limb of the root
SqrtStart(n, h) ==
    Zeros(h) \o MagOfNat(NatSqrt(Limb(n, 2 * h + 2) * Base + n[2 * h + 1],
                                 0, Base - 1) + 1)

\* floor(sqrt(n))
MagSqrt(n) ==
    IF n = <<>> THEN <<>> ELSE Newton(n, SqrtStart(n, (Len(n) - 1) \div 2))

----------------------------------------------------------------------------
(* Decimal numbers: [neg, mag, sc] stands for (+/-) mag * Base^(-sc). *)

DZero == [neg |-> FALSE, mag |-> <<>>, sc |-> 0]

\* zero low limbs dropped while the scale allows; <<magnitude, scale>>
RECURSIVE DropLow(_, _)
DropLow(m, s) ==
    IF s > 0 /\ m # <<>> /\ m[1] = 0 THEN DropLow(Tail(m), s - 1) ELSE <<m, s>>

Canon(neg, ms) ==
    IF ms[1] = <<>> THEN DZero ELSE [neg |-> neg, mag |-> ms[1], sc |-> ms[2]]

\* canonical form: equal numbers are equal records
Norm(neg, mag, sc) == Canon(neg, DropLow(StripHigh(mag), sc))

\* n * Base^(-sc) for a natural n
Dec(n, sc) == Norm(FALSE, MagOfNat(n), sc)

Max(a, b) == IF a >= b THEN a ELSE b

\* magnitude of x at scale s >= x.sc
Align(x, s) == IF x.mag = <<>> THEN <<>> ELSE Zeros(s - x.sc) \o x.mag

DNeg(x) == IF x.mag = <<>> THEN x ELSE [x EXCEPT !.neg = ~x.neg]

\* (+/-) a + (+/-) b at scale s, c comparing a with b
SignedSum(xneg, a, yneg, b, s, c) ==
    Norm(IF xneg = yneg \/ c >= 0 THEN xneg ELSE yneg,
         IF xneg = yneg THEN MagAdd(a, b)
         ELSE IF c >= 0 THEN MagSub(a, b) ELSE MagSub(b, a),
         s)

AddAligned(xneg, a, yneg, b, s) == SignedSum(xneg, a, yneg, b, s, MagCmp(a, b))

AddAt(x, y, s) == AddAligned(x.neg, Align(x, s), y.neg, Align(y, s), s)

DAdd(x, y) ==
    IF x.mag = <<>> THEN y
    ELSE IF y.mag = <<>> THEN x
    ELSE AddAt(x, y, Max(x.sc, y.sc))

DSub(x, y) == DAdd(x, DNeg(y))

DMul(x, y) ==
    IF x.mag = <<>> \/ y.mag = <<>> THEN DZero
    ELSE Norm(x.neg # y.neg, MagMul(x.mag, y.mag), x.sc + y.sc)

IsPositive(x) == x.mag # <<>> /\ ~x.neg

\* x > y
DGt(x, y) == IsPositive(DSub(x, y))

\* x truncated towards zero to at most p fractional limbs
DTrunc(x, p) ==
    IF x.sc <= p THEN x
    ELSE Norm(x.neg, SubSeq(x.mag, x.sc - p + 1, Len(x.mag)), p)

\* x / y truncated to p fractional limbs, y # 0: the quotient of the
\* magnitudes after one of them is shifted to bring the result to scale p
DDiv(x, y, p) ==
    IF x.mag = <<>> THEN DZero
    ELSE IF p + y.sc >= x.sc
    THEN Norm(x.neg # y.neg, MagDiv(Zeros(p + y.sc - x.sc) \o x.mag, y.mag), p)
    ELSE Norm(x.neg # y.neg, MagDiv(x.mag, Zeros(x.sc - p - y.sc) \o y.mag), p)

\* square root of x >= 0 truncated to p fractional limbs
DSqrt(x, p) ==
    IF x.mag = <<>> THEN DZero
    ELSE Norm(FALSE, MagSqrt(Align(DTrunc(x, 2 * p), 2 * p)), p)

----------------------------------------------------------------------------
(* The math module. *)

\* math.pi = 3.141592653589793
Pi == [neg |-> FALSE, mag |-> <<7930, 3589, 9265, 1415, 3>>, sc |-> 4]

\* math.radians: degrees * pi / 180
Radians(deg) == DDiv(DMul(deg, Pi), Dec(180, 0), Prec)

\* the term of power k + 2 of an alternating Taylor series from the term t
\* of power k
NextTerm(t, x2, k) ==
    DNeg(DDiv(DTrunc(DMul(t, x2), Prec), Dec((k + 1) * (k + 2), 0), Prec))

\* the sum of the series from the partial sum and the next term t of power
\* k, added up until a term no longer changes the sum
RECURSIVE Series(_, _, _, _)

SeriesStep(new, old, t, x2, k) ==
    IF new = old THEN old ELSE Series(new, NextTerm(t, x2, k), x2, k + 2)

Series(sum, t, x2, k) == SeriesStep(DAdd(sum, t), sum, t, x2, k)

Sin(x) == Series(DZero, x, DTrunc(DMul(x, x), Prec), 1)

Cos(x) == Series(DZero, Dec(1, 0), DTrunc(DMul(x, x), Prec), 0)

\* math.tan
Tan(x) == DDiv(Sin(x), Cos(x), Prec)

\* math.sqrt
Sqrt(x) == DSqrt(x, Prec)

----------------------------------------------------------------------------
(* Python values and call outcomes. *)

\* the value of a function that falls off its end
None == [none |-> TRUE]

Return(v) == [kind |-> "return", value |-> v]

Raise(exc, at) == [kind |-> "raise", exc |-> exc, at |-> at]

----------------------------------------------------------------------------
(* fric.py *)

SoilProperties(density, cohesion, friction_angle, k0) ==
    [density        |-> density,
     cohesion       |-> cohesion,
     friction_angle |-> Radians(friction_angle),
     k0             |-> k0]

TBMProperties(diameter, length, weight, face_pressure) ==
    [diameter      |-> diameter,
     length        |-> length,
     weight        |-> weight,
     face_pressure |-> face_pressure]

g == Dec(98100, 1)

water_density == Dec(1000, 0)

calculate_vertical_stress(depth, soil) ==
    DMul(DMul(soil.density, g), depth)

\* x ** 2
Square(x) == DMul(x, x)

\* ka * vertical_stress - 2 * cohesion * math.sqrt(ka)
ActiveStress(ka, vertical_stress, soil) ==
    DSub(DMul(ka, vertical_stress),
         DMul(DMul(Dec(2, 0), soil.cohesion), Sqrt(ka)))

\* kp * vertical_stress + 2 * cohesion * math.sqrt(kp)
PassiveStress(kp, vertical_stress, soil) ==
    DAdd(DMul(kp, vertical_stress),
         DMul(DMul(Dec(2, 0), soil.cohesion), Sqrt(kp)))

\* variant: the at-rest coefficient taken from the friction angle (Jaky)
\* instead of the stored k0
calculate_horizontal_stress_jaky(vertical_stress, soil, method) ==
    IF method = "At Rest"
    THEN DMul(DSub(Dec(1, 0), Sin(soil.friction_angle)), vertical_stress)
    ELSE IF method = "Active"
    THEN ActiveStress(Square(Tan(DSub(DDiv(Pi, Dec(4, 0), Prec),
                                      DDiv(soil.friction_angle, Dec(2, 0), Prec)))),
                      vertical_stress, soil)
    ELSE IF method = "Passive"
    THEN PassiveStress(Square(Tan(DAdd(DDiv(Pi, Dec(4, 0), Prec),
                                       DDiv(soil.friction_angle, Dec(2, 0), Prec)))),
                       vertical_stress, soil)
    ELSE None

calculate_horizontal_stress(vertical_stress, soil, method) ==
    IF method = "At Rest"
    THEN DMul(soil.k0, vertical_stress)
    ELSE IF method = "Active"
    THEN ActiveStress(Square(Tan(DSub(DDiv(Pi, Dec(4, 0), Prec),
                                      DDiv(soil.friction_angle, Dec(2, 0), Prec)))),
                      vertical_stress, soil)
    ELSE IF method = "Passive"
    THEN PassiveStress(Square(Tan(DAdd(DDiv(Pi, Dec(4, 0), Prec),
                                       DDiv(soil.friction_angle, Dec(2, 0), Prec)))),
                       vertical_stress, soil)
    ELSE None

\* variant: the comparison and the difference taken the other way round
calculate_pore_pressure_inverted(depth, water_table_depth) ==
    IF DGt(water_table_depth, depth)
    THEN DMul(DMul(water_density, g), DSub(water_table_depth, depth))
    ELSE DZero

\* variant: the water column weighed without g
calculate_pore_pressure_no_g(depth, water_table_depth) ==
    IF DGt(depth, water_table_depth)
    THEN DMul(water_density, DSub(depth, water_table_depth))
    ELSE DZero

calculate_pore_pressure(depth, water_table_depth) ==
    IF DGt(depth, water_table_depth)
    THEN DMul(DMul(water_density, g), DSub(depth, water_table_depth))
    ELSE DZero

\* variant: the difference clamped at zero
calculate_effective_stress_clamped(total_stress, pore_pressure) ==
    IF total_stress = None \/ pore_pressure = None
    THEN Raise("TypeError", "calculate_effective_stress")
    ELSE IF DGt(pore_pressure, total_stress) THEN Return(DZero)
    ELSE Return(DSub(total_stress, pore_pressure))

\* variant: a missing total stress counted as zero
calculate_effective_stress_lenient(total_stress, pore_pressure) ==
    IF pore_pressure = None
    THEN Raise("TypeError", "calculate_effective_stress")
    ELSE Return(DSub(IF total_stress = None THEN DZero ELSE total_stress,
                     pore_pressure))

\* total_stress - pore_pressure; subtracting from None raises TypeError
calculate_effective_stress(total_stress, pore_pressure) ==
    IF total_stress = None \/ pore_pressure = None
    THEN Raise("TypeError", "calculate_effective_stress")
    ELSE Return(DSub(total_stress, pore_pressure))

\* variant: the radius in place of the diameter
calculate_shield_surface_area_radius(tbm) ==
    DMul(DMul(Pi, DDiv(tbm.diameter, Dec(2, 0), Prec)), tbm.length)

calculate_shield_surface_area(tbm) ==
    DMul(DMul(Pi, tbm.diameter), tbm.length)

\* variant: the face pressure added after scaling by the area
calculate_normal_force_unscaled(effective_stress, tbm) ==
    LET shield_area == calculate_shield_surface_area(tbm)
    IN  DAdd(DMul(effective_stress, shield_area), tbm.face_pressure)

calculate_normal_force(effective_stress, tbm) ==
    LET shield_area == calculate_shield_surface_area(tbm)
    IN  DMul(DAdd(effective_stress, tbm.face_pressure), shield_area)

calculate_shield_friction(normal_force, friction_coefficient) ==
    DMul(friction_coefficient, normal_force)

\* variant: a buoyancy term taken off the weight
calculate_total_resistance_buoyant(shield_friction, tbm) ==
    DAdd(shield_friction,
         DSub(tbm.weight,
              DMul(DMul(water_density, g),
                   DMul(calculate_shield_surface_area(tbm), tbm.diameter))))

calculate_total_resistance(shield_friction, tbm) ==
    DAdd(shield_friction, tbm.weight)

calculate_all_stresses(soil, tbm, depth, water_table_depth, friction_coefficient, method) ==
    LET vertical_stress   == calculate_vertical_stress(depth, soil)
        horizontal_stress == calculate_horizontal_stress(vertical_stress, soil, method)
        pore_pressure     == calculate_pore_pressure(depth, water_table_depth)
        effective         == calculate_effective_stress(horizontal_stress, pore_pressure)
    IN  IF effective.kind = "raise" THEN effective
        ELSE LET effective_stress == effective.value
                 normal_force     == calculate_normal_force(effective_stress, tbm)
                 shield_friction  == calculate_shield_friction(normal_force, friction_coefficient)
                 total_resistance == calculate_total_resistance(shield_friction, tbm)
             IN  Return([vertical_stress   |-> vertical_stress,
                         horizontal_stress |-> horizontal_stress,
                         pore_pressure     |-> pore_pressure,
                         effective_stress  |-> effective_stress,
                         normal_force      |-> normal_force,
                         shield_friction   |-> shield_friction,
                         total_resistance  |-> total_resistance])

----------------------------------------------------------------------------
(* Inputs: the dashboard defaults and values around them. *)

MaxDepthSteps == 4

MaxWaterSteps == 1

MaxPureSteps == 2

\* tunnel depths in steps of 2.5 m
Depths == {DMul(Dec(k, 0), Dec(25000, 1)) : k \in 0..MaxDepthSteps}

\* water table depths in steps of 5 m
WaterTables == {Dec(5 * k, 0) : k \in 0..MaxWaterSteps}

Densities == {Dec(1800, 0)}

Cohesions == {Dec(5000, 0), Dec(50000, 0)}

\* degrees
FrictionAngles == {Dec(0, 0), Dec(30, 0)}

K0s == {Dec(5000, 1), Dec(1, 0)}

Diameters == {Dec(6, 0)}

Lengths == {Dec(10, 0)}

Weights == {Dec(0, 0), Dec(5000000, 0)}

FacePressures == {Dec(200000, 0)}

FrictionCoefficients == {Dec(3000, 1), Dec(5000, 1)}

Recognized == {"At Rest", "Active", "Passive"}

\* the selectbox offers the three recognized methods; any other string can
\* be passed by a direct caller
Methods == Recognized \cup {"Rankine"}

----------------------------------------------------------------------------
(* State: the two property objects a caller holds, the last call made on  *)
(* the module with its outcome, and an earlier call remembered by an       *)
(* observer for comparison with later ones.                                *)

VARIABLES soil_properties, tbm_properties, call, pinned

vars == <<soil_properties, tbm_properties, call, pinned>>

NoCall == [fn |-> "none", inputs |-> <<>>, outcome |-> None]

NoPin == [call |-> NoCall, later |-> FALSE]

\* a call made after the remembered one
Later == IF pinned = NoPin THEN pinned ELSE [pinned EXCEPT !.later = TRUE]

Init ==
    /\ soil_properties \in {SoilProperties(d, c, f, k) :
                               d \in Densities, c \in Cohesions,
                               f \in FrictionAngles, k \in K0s}
    /\ tbm_properties \in {TBMProperties(d, l, w, p) :
                               d \in Diameters, l \in Lengths,
                               w \in Weights, p \in FacePressures}
    /\ call = NoCall
    /\ pinned = NoPin

\* a script run builds the objects anew; no result of that run exists yet
NewSoilProperties(density, cohesion, friction_angle, k0) ==
    /\ soil_properties' = SoilProperties(density, cohesion, friction_angle, k0)
    /\ call' = NoCall
    /\ UNCHANGED <<tbm_properties, pinned>>

NewTBMProperties(diameter, length, weight, face_pressure) ==
    /\ tbm_properties' = TBMProperties(diameter, length, weight, face_pressure)
    /\ call' = NoCall
    /\ UNCHANGED <<soil_properties, pinned>>

CallPorePressure(depth, water_table_depth) ==
    /\ call' = [fn      |-> "calculate_pore_pressure",
                inputs  |-> [depth |-> depth, water_table_depth |-> water_table_depth],
                outcome |-> Return(calculate_pore_pressure(depth, water_table_depth))]
    /\ UNCHANGED <<soil_properties, tbm_properties, pinned>>

CallHorizontalStress(depth, method) ==
    LET vertical_stress == calculate_vertical_stress(depth, soil_properties)
    IN  /\ call' = [fn      |-> "calculate_horizontal_stress",
                    inputs  |-> [vertical_stress |-> vertical_stress,
                                 soil |-> soil_properties, method |-> method],
                    outcome |-> Return(calculate_horizontal_stress(
                                           vertical_stress, soil_properties, method))]
        /\ UNCHANGED <<soil_properties, tbm_properties, pinned>>

\* variant: the previous result reused whenever the depth is unchanged
CallAllStresses_cached(depth, water_table_depth, friction_coefficient, method) ==
    /\ call' = [fn      |-> "calculate_all_stresses",
                inputs  |-> [soil |-> soil_properties, tbm |-> tbm_properties,
                             depth |-> depth, water_table_depth |-> water_table_depth,
                             friction_coefficient |-> friction_coefficient,
                             method |-> method],
                outcome |-> IF /\ call.fn = "calculate_all_stresses"
                               /\ call.inputs.depth = depth
                            THEN call.outcome
                            ELSE calculate_all_stresses(soil_properties, tbm_properties,
                                     depth, water_table_depth, friction_coefficient, method)]
    /\ pinned' = Later
    /\ UNCHANGED <<soil_properties, tbm_properties>>

CallAllStresses(depth, water_table_depth, friction_coefficient, method) ==
    /\ call' = [fn      |-> "calculate_all_stresses",
                inputs  |-> [soil |-> soil_properties, tbm |-> tbm_properties,
                             depth |-> depth, water_table_depth |-> water_table_depth,
                             friction_coefficient |-> friction_coefficient,
                             method |-> method],
                outcome |-> calculate_all_stresses(soil_properties, tbm_properties,
                                depth, water_table_depth, friction_coefficient, method)]
    /\ pinned' = Later
    /\ UNCHANGED <<soil_properties, tbm_properties>>

\* the observer remembers the call just made
Pin ==
    /\ call.fn = "calculate_all_stresses"
    /\ pinned' = [call |-> call, later |-> FALSE]
    /\ UNCHANGED <<soil_properties, tbm_properties, call>>

\* A script run (calculator_page, data_analysis_page) builds the objects and
\* makes at most one call on them.
Next ==
    \/ \E d \in Densities, c \in Cohesions, f \in FrictionAngles, k \in K0s :
           NewSoilProperties(d, c, f, k)
    \/ \E d \in Diameters, l \in Lengths, w \in Weights, p \in FacePressures :
           NewTBMProperties(d, l, w, p)
    \/ /\ call = NoCall
       /\ \E h \in Depths, hw \in WaterTables : CallPorePressure(h, hw)
    \/ /\ call = NoCall
       /\ \E h \in Depths, m \in Methods : CallHorizontalStress(h, m)
    \/ /\ call = NoCall
       /\ \E h \in Depths, hw \in WaterTables, mu \in FrictionCoefficients, m \in Methods :
              CallAllStresses(h, hw, mu, m)

Spec == Init /\ [][Next]_vars

----------------------------------------------------------------------------
(* A caller that keeps its objects and calls calculate_all_stresses any     *)
(* number of times in any order, with an observer comparing the calls.      *)

PureDepths == {Dec(5 * k, 0) : k \in 1..MaxPureSteps}

PureWaterTables == {Dec(5, 0)}

PureFrictionCoefficients == {Dec(3000, 1)}

PureCohesions == {Dec(5000, 0)}

InitPure ==
    /\ soil_properties \in {SoilProperties(d, c, f, k) :
                               d \in Densities, c \in PureCohesions,
                               f \in FrictionAngles, k \in K0s}
    /\ tbm_properties = TBMProperties(Dec(6, 0), Dec(10, 0), Dec(5000000, 0),
                                      Dec(200000, 0))
    /\ call = NoCall
    /\ pinned = NoPin

NextPure ==
    \/ \E d \in Densities, c \in PureCohesions, f \in FrictionAngles, k \in K0s :
           NewSoilProperties(d, c, f, k)
    \/ NewTBMProperties(Dec(6, 0), Dec(10, 0), Dec(5000000, 0), Dec(200000, 0))
    \/ \E h \in PureDepths, hw \in PureWaterTables,
          mu \in PureFrictionCoefficients, m \in Methods :
           CallAllStresses(h, hw, mu, m)
    \/ Pin

SpecPure == InitPure /\ [][NextPure]_vars

----------------------------------------------------------------------------
(* What a caller sees of a call. *)

\* calculate_all_stresses came back with its dict of seven values
Returned ==
    /\ call.fn = "calculate_all_stresses"
    /\ call.outcome.kind = "return"

\* the values the calculator page offers before the user changes any
DefaultInputs ==
    [soil  |-> SoilProperties(Dec(1800, 0), Dec(5000, 0), Dec(30, 0), Dec(5000, 1)),
     tbm   |-> TBMProperties(Dec(6, 0), Dec(10, 0), Dec(5000000, 0), Dec(200000, 0)),
     depth |-> Dec(10, 0), water_table_depth |-> Dec(5, 0),
     friction_coefficient |-> Dec(3000, 1), method |-> "At Rest"]

----------------------------------------------------------------------------
(* Claims. *)

\* C1 (as stated): for a method that is none of the three recognized ones
\* calculate_horizontal_stress fails with an error; it never returns normally.
C1_UnknownMethodFails ==
    (call.fn = "calculate_horizontal_stress" /\ call.inputs.method \notin Recognized)
        => call.outcome.kind = "raise"

\* C1, the case at hand: an unrecognized method was passed and the function
\* returned None
C1_ReturnsNone ==
    /\ call.fn = "calculate_horizontal_stress"
    /\ call.inputs.method \notin Recognized
    /\ call.outcome = Return(None)

\* C2: calculate_pore_pressure(h, hw) is 1000 * 9.81 * max(0, h - hw): 0 when
\* h <= hw and 1000 * 9.81 * (h - hw) when h > hw.
C2_PorePressure ==
    call.fn = "calculate_pore_pressure" =>
        LET h    == call.inputs.depth
            hw   == call.inputs.water_table_depth
            diff == DSub(h, hw)
        IN  /\ call.outcome.kind = "return"
            /\ call.outcome.value =
                   DMul(DMul(Dec(1000, 0), Dec(98100, 1)),
                        IF diff.neg THEN DZero ELSE diff)
            /\ ~DGt(h, hw) => call.outcome.value = DZero
            /\ DGt(h, hw) =>
                   call.outcome.value = DMul(DMul(Dec(1000, 0), Dec(98100, 1)), diff)

\* C2, the case at hand: a depth of 10 m under a water table at 5 m gives
\* 49050 Pa
C2_BelowWaterTable ==
    /\ call.fn = "calculate_pore_pressure"
    /\ call.inputs.depth = Dec(10, 0)
    /\ call.inputs.water_table_depth = Dec(5, 0)
    /\ call.outcome = Return(Dec(49050, 0))

\* C3 (as stated): the pore pressure returned by the evaluation is 0 when
\* h >= waterTableDepth and 1000 * 9.81 * (waterTableDepth - h) when
\* h < waterTableDepth.
C3_AsStated ==
    Returned =>
        LET h  == call.inputs.depth
            hw == call.inputs.water_table_depth
        IN  call.outcome.value.pore_pressure =
                IF DGt(hw, h)
                THEN DMul(DMul(Dec(1000, 0), Dec(98100, 1)), DSub(hw, h))
                ELSE DZero

\* C3 (amended): the pore pressure returned by the evaluation is 0 when
\* h <= waterTableDepth and 1000 * 9.81 * (h - waterTableDepth) when
\* h > waterTableDepth.
C3_Amended ==
    Returned =>
        LET h  == call.inputs.depth
            hw == call.inputs.water_table_depth
        IN  call.outcome.value.pore_pressure =
                IF DGt(h, hw)
                THEN DMul(DMul(Dec(1000, 0), Dec(98100, 1)), DSub(h, hw))
                ELSE DZero

\* C3, the case at hand: an evaluation at a depth below the water table
\* returned a positive pore pressure
C3_EvaluatedBelowWaterTable ==
    /\ Returned
    /\ DGt(call.inputs.depth, call.inputs.water_table_depth)
    /\ IsPositive(call.outcome.value.pore_pressure)

\* C4: in every record returned for a recognized method, total_resistance is
\* the record's shield_friction plus tbm.weight and nothing else.
C4_TotalResistance ==
    (Returned /\ call.inputs.method \in Recognized) =>
        call.outcome.value.total_resistance =
            DAdd(call.outcome.value.shield_friction, call.inputs.tbm.weight)

\* C4, the case at hand: a record returned for a machine with a weight
C4_WeighedMachine ==
    /\ Returned
    /\ call.inputs.method \in Recognized
    /\ IsPositive(call.inputs.tbm.weight)
    /\ IsPositive(call.outcome.value.shield_friction)

\* C5: in every returned record, shield_friction is friction_coefficient times
\* the record's normal_force, and normal_force is (effective_stress +
\* tbm.face_pressure) * (pi * tbm.diameter * tbm.length).
C5_ShieldFriction ==
    Returned =>
        LET r   == call.outcome.value
            tbm == call.inputs.tbm
        IN  /\ r.shield_friction =
                   DMul(call.inputs.friction_coefficient, r.normal_force)
            /\ r.normal_force =
                   DMul(DAdd(r.effective_stress, tbm.face_pressure),
                        DMul(DMul(Pi, tbm.diameter), tbm.length))

\* C5, the case at hand: a record returned with a normal force on the shield
C5_ForceOnShield ==
    /\ Returned
    /\ IsPositive(call.outcome.value.normal_force)
    /\ IsPositive(call.outcome.value.shield_friction)

\* C6 (as stated): with the default inputs the evaluation returns 176580 Pa,
\* 88290 Pa, 49050 Pa and 39240 Pa and, to within 1 kN, a normal force of
\* 45,065,140 N, a shield friction of 13,519,542 N and a total resistance of
\* 18,519,542 N.
C6_AsStated ==
    (call.fn = "calculate_all_stresses" /\ call.inputs = DefaultInputs) =>
        LET Within(v, n) == /\ ~DGt(DSub(v, Dec(n, 0)), Dec(1000, 0))
                            /\ ~DGt(DSub(Dec(n, 0), v), Dec(1000, 0))
        IN  /\ call.outcome.kind = "return"
            /\ call.outcome.value.vertical_stress = Dec(176580, 0)
            /\ call.outcome.value.horizontal_stress = Dec(88290, 0)
            /\ call.outcome.value.pore_pressure = Dec(49050, 0)
            /\ call.outcome.value.effective_stress = Dec(39240, 0)
            /\ Within(call.outcome.value.normal_force, 45065140)
            /\ Within(call.outcome.value.shield_friction, 13519542)
            /\ Within(call.outcome.value.total_resistance, 18519542)

\* C6 (amended): with the default inputs the evaluation returns 176580 Pa,
\* 88290 Pa, 49050 Pa and 39240 Pa and, to within 1 kN, a normal force of
\* 45,095,678 N, a shield friction of 13,528,703 N and a total resistance of
\* 18,528,703 N.
C6_Amended ==
    (call.fn = "calculate_all_stresses" /\ call.inputs = DefaultInputs) =>
        LET Within(v, n) == /\ ~DGt(DSub(v, Dec(n, 0)), Dec(1000, 0))
                            /\ ~DGt(DSub(Dec(n, 0), v), Dec(1000, 0))
        IN  /\ call.outcome.kind = "return"
            /\ call.outcome.value.vertical_stress = Dec(176580, 0)
            /\ call.outcome.value.horizontal_stress = Dec(88290, 0)
            /\ call.outcome.value.pore_pressure = Dec(49050, 0)
            /\ call.outcome.value.effective_stress = Dec(39240, 0)
            /\ Within(call.outcome.value.normal_force, 45095678)
            /\ Within(call.outcome.value.shield_friction, 13528703)
            /\ Within(call.outcome.value.total_resistance, 18528703)

\* C6, the case at hand: the evaluation ran on the default inputs
C6_DefaultScenario ==
    /\ Returned
    /\ call.inputs = DefaultInputs

C8_AtRest ==
    /\ (call.fn = "calculate_horizontal_stress" /\ call.inputs.method = "At Rest") =>
           call.outcome = Return(DMul(call.inputs.soil.k0, call.inputs.vertical_stress))
    /\ (Returned /\ call.inputs.method = "At Rest") =>
           LET r    == call.outcome.value
               soil == call.inputs.soil
           IN  /\ r.horizontal_stress = DMul(soil.k0, r.vertical_stress)
               /\ r.horizontal_stress =
                      DMul(soil.k0, DMul(DMul(soil.density, Dec(98100, 1)),
                                         call.inputs.depth))
               /\ soil.k0 = Dec(1, 0) => r.horizontal_stress = r.vertical_stress

\* C8, the case at hand: an at-rest evaluation with k0 = 1, a friction angle
\* and a stress to compare
C8_UnitK0 ==
    /\ Returned
    /\ call.inputs.method = "At Rest"
    /\ call.inputs.soil.k0 = Dec(1, 0)
    /\ IsPositive(call.inputs.soil.friction_angle)
    /\ IsPositive(call.outcome.value.horizontal_stress)

\* C9: in every returned record, effective_stress is the record's
\* horizontal_stress minus its pore_pressure, unclamped: it is negative
\* whenever the pore pressure exceeds the horizontal stress.
C9_EffectiveStress ==
    Returned =>
        LET r == call.outcome.value
        IN  /\ r.effective_stress = DSub(r.horizontal_stress, r.pore_pressure)
            /\ DGt(r.pore_pressure, r.horizontal_stress) => r.effective_stress.neg

\* C9, the case at hand: a record whose pore pressure exceeds its horizontal
\* stress, which differs from its vertical stress
C9_PoreAboveHorizontal ==
    /\ Returned
    /\ DGt(call.outcome.value.pore_pressure, call.outcome.value.horizontal_stress)
    /\ call.outcome.value.horizontal_stress # call.outcome.value.vertical_stress
    /\ call.outcome.value.effective_stress.neg

\* C10: for a method that is none of 'At Rest', 'Active', 'Passive'
\* calculate_all_stresses returns no record: it ends with a TypeError raised
\* by the subtraction in calculate_effective_stress, at every depth and water
\* table depth; and no returned record holds None as its horizontal_stress.
C10_UnknownMethodAborts ==
    /\ (call.fn = "calculate_all_stresses" /\ call.inputs.method \notin Recognized) =>
           call.outcome = Raise("TypeError", "calculate_effective_stress")
    /\ Returned => call.outcome.value.horizontal_stress # None

\* C10, the case at hand: an unrecognized method at a depth above the water
\* table, where the pore pressure is 0
C10_AbortedWithoutPorePressure ==
    /\ call.fn = "calculate_all_stresses"
    /\ call.inputs.method \notin Recognized
    /\ ~DGt(call.inputs.depth, call.inputs.water_table_depth)
    /\ call.outcome.kind = "raise"

====
